---------------------------- MODULE Spec2Model ----------------------------
(***************************************************************************)
(* A model of the expense tracker of wingforth/roadmap-projects:           *)
(*   expense_tracker/expense.py   the record type and the binary searches  *)
(*   expense_tracker/storage.py   the CSV ledger file, the budget file     *)
(*   expense_tracker/cli.py       the add / update / delete / budget       *)
(*                                handlers, summary and export             *)
(* and of two functions of its number guessing game:                       *)
(*   number_guessing_game/score.py   TopScoreList.ranking, update_scores   *)
(*   number_guessing_game/game.py    guess                                 *)
(*                                                                         *)
(* Python values are modelled as follows.                                  *)
(*   str          a sequence of one-character strings                      *)
(*   int          an integer                                               *)
(*   float        an integer number of tenths (2.5 is 25, 15.0 is 150)     *)
(*   date         a record [year, month, day]                              *)
(*   x or None    <<x>> or <<>>                                            *)
(*   list         a sequence; code indices are 0-based, so the element at  *)
(*                code index i is seq[i + 1]                               *)
(* A CSV file is [exists, rows]; a row is a sequence of cells and a cell   *)
(* is [quoted, text], the text being what stands between the separators.   *)
(***************************************************************************)
EXTENDS Integers, Sequences, FiniteSets, TLC

VARIABLES
    db,        \* the ledger file at config.DATABASE (or the path under test)
    today,     \* what date.today() returns now
    last,      \* the last invocation: its name, inputs, what it loaded and printed
    assigned,  \* the ids handle_add has handed out so far
    stamp,     \* the date stamped by the latest handle_add, <<>> before the first
    ordered,   \* whether no handle_add so far stamped a date earlier than the one before it
    seq,       \* the list handed to the search functions of expense.py
    call,      \* the last call of a function run on its own: its name, arguments and result
    budget,    \* the budget file at config.BUDGET
    inv,       \* two invocations run at once: where each stands and what it loaded
    exported,  \* the file at the path that is not the ledger's, for export --csv
    top,       \* number-guessing-game: the TopScoreList of one difficulty level
    game       \* number-guessing-game: one call of guess

vars == <<db, today, last, assigned, stamp, ordered, seq, call, budget, inv,
          exported, top, game>>

-----------------------------------------------------------------------------
(* Bounds of the model.                                                    *)

\* the longest ledger the handlers grow
MaxLen == 2
\* the largest id handle_add hands out
MaxId == 3
\* the most rows appended to a file written by save_expenses
MaxRows == 3
\* the longest list handed to save_expenses
MaxSaved == 2
\* the longest list handed to the search functions
MaxSeqLen == 4
\* the largest key in the lists handed to _first_ge_index and find_by_id
MaxKey == 4

\* the longest list filter_by_category is run on, and the largest id in it
MaxCatLen == 3

MaxCatId == 2

\* the longest list _first_ge_index is run on pass by pass, and the largest
\* id in it
MaxLoopLen == 3

MaxLoopKey == 3

\* the largest capacity of a top score list, and the most attempts of a score
MaxCount == 2

MaxAttempts == 2

\* the most chances of a game, and the most lines that are no integer
MaxChances == 3

MaxInvalid == 1

\* the longest ledger that is summed up or exported
MaxReportLen == 2

-----------------------------------------------------------------------------
(* Python built-ins the code calls.                                        *)

None == <<>>

Some(x) == <<x>>

DigitChars == <<"0", "1", "2", "3", "4", "5", "6", "7", "8", "9">>

DigitVals == [c \in {DigitChars[d] : d \in 1..10} |->
                 (CHOOSE d \in 1..10 : DigitChars[d] = c) - 1]

IsDigit(c) == c \in DOMAIN DigitVals

DigitVal(c) == DigitVals[c]

\* str(n) for an int n >= 0, as csv.writer writes an int field
RECURSIVE int2str(_)
int2str(n) ==
    IF n < 10 THEN <<DigitChars[n + 1]>>
    ELSE int2str(n \div 10) \o <<DigitChars[(n % 10) + 1]>>

\* "%0<w>d" % n, as date.isoformat() formats each part
RECURSIVE zfill(_, _)
zfill(s, w) == IF Len(s) >= w THEN s ELSE zfill(<<"0">> \o s, w)

\* repr(x) for a float x >= 0 with one decimal place, as csv.writer writes it
float2str(x) == int2str(x \div 10) \o <<".">> \o int2str(x % 10)

\* str(d) for a date d: YYYY-MM-DD
date2str(d) ==
    zfill(int2str(d.year), 4) \o <<"-">> \o zfill(int2str(d.month), 2)
        \o <<"-">> \o zfill(int2str(d.day), 2)

AllDigits(s) == Len(s) > 0 /\ \A i \in 1..Len(s) : IsDigit(s[i])

\* int(s) for a string of decimal digits (leading zeros allowed)
RECURSIVE str2int(_)
str2int(s) ==
    IF Len(s) = 0 THEN 0
    ELSE 10 * str2int(SubSeq(s, 1, Len(s) - 1)) + DigitVal(s[Len(s)])

\* s.split(sep)
RECURSIVE split(_, _)
split(s, sep) ==
    IF \E i \in 1..Len(s) : s[i] = sep
    THEN LET i == CHOOSE k \in 1..Len(s) :
                      s[k] = sep /\ \A j \in 1..(k - 1) : s[j] # sep
         IN  <<SubSeq(s, 1, i - 1)>> \o split(SubSeq(s, i + 1, Len(s)), sep)
    ELSE <<s>>

\* float(s): digits, or digits "." digit; the value in tenths
IsFloatStr(s) ==
    LET parts == split(s, ".")
    IN  \/ Len(parts) = 1 /\ AllDigits(parts[1])
        \/ Len(parts) = 2 /\ AllDigits(parts[1]) /\ AllDigits(parts[2])
                          /\ Len(parts[2]) = 1

str2float(s) ==
    LET parts == split(s, ".")
    IN  IF Len(parts) = 1 THEN 10 * str2int(parts[1])
        ELSE 10 * str2int(parts[1]) + str2int(parts[2])

\* int(x) for a float x >= 0: truncation
float2int(x) == x \div 10

-----------------------------------------------------------------------------
(* expense.py: the record type.                                            *)

Expense(id, description, amount, category, create_at) ==
    [id |-> id, description |-> description, amount |-> amount,
     category |-> category, create_at |-> create_at]

\* Expense.fields(): the names of the dataclass fields, in order
fields ==
    << <<"i", "d">>,
       <<"d", "e", "s", "c", "r", "i", "p", "t", "i", "o", "n">>,
       <<"a", "m", "o", "u", "n", "t">>,
       <<"c", "a", "t", "e", "g", "o", "r", "y">>,
       <<"c", "r", "e", "a", "t", "e", "_", "a", "t">> >>

\* Expense.update writing the description whether given or not ("" for None)
update_description_always(exp, description, amount, category) ==
    [exp EXCEPT
        !.description = IF description # None THEN description[1] ELSE <<>>,
        !.amount = IF amount # None THEN amount[1] ELSE @,
        !.category = IF category # None THEN category[1] ELSE @]

\* Expense.update: each argument that is not None overwrites its field
update(exp, description, amount, category) ==
    [exp EXCEPT
        !.description = IF description # None THEN description[1] ELSE @,
        !.amount = IF amount # None THEN amount[1] ELSE @,
        !.category = IF category # None THEN category[1] ELSE @]


-----------------------------------------------------------------------------
(* expense.py: the searches.  A key function is named by a string: "id" is *)
(* find_by_id's lambda x: x.id, "year_and_month" is filter_by_date's       *)
(* year_and_month.                                                         *)

year_and_month(exp) == <<exp.create_at.year, exp.create_at.month>>

KeyOf(key, exp) == IF key = "id" THEN exp.id ELSE year_and_month(exp)

\* Python's a < b: on ints, and lexicographic on tuples of two ints
Less(key, a, b) ==
    IF key = "id" THEN a < b
    ELSE a[1] < b[1] \/ (a[1] = b[1] /\ a[2] < b[2])

\* the same search with <= for <: a plausible slip, the upper bound
first_gt_index(s, target, low, high, key) ==
    LET RECURSIVE loop(_, _)
        loop(lo, hi) ==
            IF lo < hi
            THEN LET mid == (lo + hi) \div 2
                 IN  IF ~Less(key, target, KeyOf(key, s[mid + 1]))
                     THEN loop(mid + 1, hi)
                     ELSE loop(lo, mid)
            ELSE lo
    IN  loop(low, high)

\* _first_ge_index: while low < high, halve the range on key(seq[mid]) < target
_first_ge_index(s, target, low, high, key) ==
    LET RECURSIVE loop(_, _)
        loop(lo, hi) ==
            IF lo < hi
            THEN LET mid == (lo + hi) \div 2
                 IN  IF Less(key, KeyOf(key, s[mid + 1]), target)
                     THEN loop(mid + 1, hi)
                     ELSE loop(lo, mid)
            ELSE lo
    IN  loop(low, high)

\* the pass of the loop that leaves low at mid
_first_ge_index_pass_low_mid(s, target, low, high, key) ==
    LET mid == (low + high) \div 2
    IN  IF Less(key, KeyOf(key, s[mid + 1]), target)
        THEN [read |-> mid, low |-> mid, high |-> high]
        ELSE [read |-> mid, low |-> low, high |-> mid]

\* one pass of the while loop of _first_ge_index, entered with low < high:
\* the index it reads and the range it leaves
_first_ge_index_pass(s, target, low, high, key) ==
    LET mid == (low + high) \div 2
    IN  IF Less(key, KeyOf(key, s[mid + 1]), target)
        THEN [read |-> mid, low |-> mid + 1, high |-> high]
        ELSE [read |-> mid, low |-> low, high |-> mid]

\* str.casefold over the letters the categories of the model are written in
casefold(s) == [i \in 1..Len(s) |-> IF s[i] = "F" THEN "f" ELSE s[i]]

\* filter_by_category that takes "Food" for "food"
filter_by_category_caseless(expenses, category) ==
    SelectSeq(expenses, LAMBDA exp : casefold(exp.category) = casefold(category))

\* filter_by_category: the expenses whose category is the one given, in order
filter_by_category(expenses, category) ==
    SelectSeq(expenses, LAMBDA exp : exp.category = category)

\* find_by_id without the test that the element found holds id_
find_by_id_unchecked(expenses, id_) ==
    LET length == Len(expenses)
        index == _first_ge_index(expenses, id_, 0, length, "id")
    IN  IF index = length THEN None ELSE Some(index)

\* find_by_id: the index of the expense holding id_, or None
find_by_id(expenses, id_) ==
    LET length == Len(expenses)
        index == _first_ge_index(expenses, id_, 0, length, "id")
    IN  IF index = length \/ expenses[index + 1].id # id_ THEN None
        ELSE Some(index)

\* a call's outcome: the value returned, or the exception raised
Return(v) == [raised |-> None, value |-> v]

Raise(e) == [raised |-> Some(e), value |-> None]

\* filter_by_date with the month after December taken to be January
filter_by_date_wrapped(expenses, month, year, now) ==
    LET length == Len(expenses)
    IN  IF month = None
        THEN IF year = None THEN Raise("TypeError")
             ELSE LET start == _first_ge_index(expenses, <<year[1], 1>>, 0,
                                               length, "year_and_month")
                      stop == _first_ge_index(expenses, <<year[1] + 1, 1>>,
                                              start, length, "year_and_month")
                  IN  Return(SubSeq(expenses, start + 1, stop))
        ELSE LET y == IF year = None THEN now.year ELSE year[1]
                 start == _first_ge_index(expenses, <<y, month[1]>>, 0,
                                          length, "year_and_month")
                 stop == _first_ge_index(expenses, <<y, (month[1] % 12) + 1>>,
                                         start, length, "year_and_month")
             IN  Return(SubSeq(expenses, start + 1, stop))

\* filter_by_date whose year filter runs to the end of the ledger
filter_by_date_year_open(expenses, month, year, now) ==
    LET length == Len(expenses)
    IN  IF month = None
        THEN IF year = None THEN Raise("TypeError")
             ELSE LET start == _first_ge_index(expenses, <<year[1], 1>>, 0,
                                               length, "year_and_month")
                  IN  Return(SubSeq(expenses, start + 1, length))
        ELSE LET y == IF year = None THEN now.year ELSE year[1]
                 start == _first_ge_index(expenses, <<y, month[1]>>, 0,
                                          length, "year_and_month")
                 stop == _first_ge_index(expenses, <<y, month[1] + 1>>,
                                         start, length, "year_and_month")
             IN  Return(SubSeq(expenses, start + 1, stop))

\* filter_by_date that returns the whole ledger when neither is given
filter_by_date_lenient(expenses, month, year, now) ==
    LET length == Len(expenses)
    IN  IF month = None
        THEN IF year = None THEN Return(expenses)
             ELSE LET start == _first_ge_index(expenses, <<year[1], 1>>, 0,
                                               length, "year_and_month")
                      stop == _first_ge_index(expenses, <<year[1] + 1, 1>>,
                                              start, length, "year_and_month")
                  IN  Return(SubSeq(expenses, start + 1, stop))
        ELSE LET y == IF year = None THEN now.year ELSE year[1]
                 start == _first_ge_index(expenses, <<y, month[1]>>, 0,
                                          length, "year_and_month")
                 stop == _first_ge_index(expenses, <<y, month[1] + 1>>,
                                         start, length, "year_and_month")
             IN  Return(SubSeq(expenses, start + 1, stop))

\* filter_by_date whose year defaults to the year of the latest expense
filter_by_date_latest_year(expenses, month, year, now) ==
    LET length == Len(expenses)
    IN  IF month = None
        THEN IF year = None THEN Raise("TypeError")
             ELSE LET start == _first_ge_index(expenses, <<year[1], 1>>, 0,
                                               length, "year_and_month")
                      stop == _first_ge_index(expenses, <<year[1] + 1, 1>>,
                                              start, length, "year_and_month")
                  IN  Return(SubSeq(expenses, start + 1, stop))
        ELSE LET y == IF year # None THEN year[1]
                      ELSE IF length = 0 THEN now.year
                      ELSE expenses[length].create_at.year
                 start == _first_ge_index(expenses, <<y, month[1]>>, 0,
                                          length, "year_and_month")
                 stop == _first_ge_index(expenses, <<y, month[1] + 1>>,
                                         start, length, "year_and_month")
             IN  Return(SubSeq(expenses, start + 1, stop))

\* filter_by_date(expenses, month, year); now is what date.today() returns.
\* The slice expenses[start:stop] is SubSeq(expenses, start + 1, stop).
filter_by_date(expenses, month, year, now) ==
    LET length == Len(expenses)
    IN  IF month = None
        THEN IF year = None THEN Raise("TypeError")
             ELSE LET start == _first_ge_index(expenses, <<year[1], 1>>, 0,
                                               length, "year_and_month")
                      stop == _first_ge_index(expenses, <<year[1] + 1, 1>>,
                                              start, length, "year_and_month")
                  IN  Return(SubSeq(expenses, start + 1, stop))
        ELSE LET y == IF year = None THEN now.year ELSE year[1]
                 start == _first_ge_index(expenses, <<y, month[1]>>, 0,
                                          length, "year_and_month")
                 stop == _first_ge_index(expenses, <<y, month[1] + 1>>,
                                         start, length, "year_and_month")
             IN  Return(SubSeq(expenses, start + 1, stop))

-----------------------------------------------------------------------------
(* storage.py: the CSV ledger.  csv.writer with QUOTE_NONNUMERIC quotes    *)
(* every field that is not a number; csv.reader with QUOTE_NONNUMERIC      *)
(* turns every unquoted field into a float and leaves a quoted one a str.  *)

NoFile == [exists |-> FALSE, rows |-> <<>>]

Quoted(text) == [quoted |-> TRUE, text |-> text]

Unquoted(text) == [quoted |-> FALSE, text |-> text]

\* _str2date: date(*(int(item) for item in date_string.split("-")))
_str2date(date_string) ==
    LET items == split(date_string, "-")
    IN  [year |-> str2int(items[1]), month |-> str2int(items[2]),
         day |-> str2int(items[3])]

\* writer.writerow(Expense.fields())
header_row == [i \in 1..Len(fields) |-> Quoted(fields[i])]

\* writer.writerow(exp.to_tuple()): id and amount are numbers, the rest is not
to_row(exp) ==
    << Unquoted(int2str(exp.id)), Quoted(exp.description),
       Unquoted(float2str(exp.amount)), Quoted(exp.category),
       Quoted(date2str(exp.create_at)) >>

\* what csv.reader yields for a cell
cell_value(cell) == IF cell.quoted THEN cell.text ELSE str2float(cell.text)

\* tuple(first_line) == Expense.fields(): a float never equals a str
is_header(row) ==
    /\ Len(row) = Len(fields)
    /\ \A i \in 1..Len(row) : row[i].quoted /\ row[i].text = fields[i]

\* missing, empty, only the header, or holding expenses
FileKind(csv_file) ==
    IF ~csv_file.exists THEN "missing"
    ELSE IF Len(csv_file.rows) = 0 THEN "empty"
    ELSE IF Len(csv_file.rows) = 1 /\ is_header(csv_file.rows[1]) THEN "header-only"
    ELSE "populated"

\* id_, *_, create_at = row; Expense(int(id_), *_, _str2date(create_at));
\* int() truncates a float and parses a str
to_expense(row) ==
    Expense(IF row[1].quoted THEN str2int(row[1].text)
            ELSE float2int(cell_value(row[1])), cell_value(row[2]),
            cell_value(row[3]), cell_value(row[4]),
            _str2date(cell_value(row[5])))

\* load_expenses that takes the first line for a header whatever it holds
load_expenses_skip_first(csv_file) ==
    IF ~csv_file.exists THEN <<>>
    ELSE IF Len(csv_file.rows) = 0 THEN <<>>
    ELSE [i \in 1..(Len(csv_file.rows) - 1) |-> to_expense(csv_file.rows[i + 1])]

\* load_expenses: [] for a missing or empty file; the first line is dropped
\* when it is the header
load_expenses(csv_file) ==
    IF ~csv_file.exists THEN <<>>
    ELSE IF Len(csv_file.rows) = 0 THEN <<>>
    ELSE LET first_line == csv_file.rows[1]
             rest == Tail(csv_file.rows)
             expenses == IF ~is_header(first_line)
                         THEN <<to_expense(first_line)>> ELSE <<>>
         IN  expenses \o [i \in 1..Len(rest) |-> to_expense(rest[i])]

\* csv.field_size_limit(): csv.reader raises csv.Error on a longer field, and
\* on nothing else in a file of text
field_size_limit == 131072

csv_error(row) == \E i \in 1..Len(row) : Len(row[i].text) > field_size_limit

\* the days of a month, as datetime.date checks them
days_in_month(year, month) ==
    IF month = 2
    THEN IF (year % 4 = 0 /\ year % 100 # 0) \/ year % 400 = 0 THEN 29 ELSE 28
    ELSE IF month \in {4, 6, 9, 11} THEN 30 ELSE 31

\* the exception _str2date(create_at) raises on a cell, or None: a float has
\* no split, int() wants digits, date() wants three arguments and a real day
date_error(cell) ==
    IF ~cell.quoted THEN Some("AttributeError")
    ELSE LET items == split(cell.text, "-")
         IN  IF \E i \in 1..Len(items) : ~AllDigits(items[i])
             THEN Some("ValueError")
             ELSE IF Len(items) # 3 THEN Some("TypeError")
             ELSE LET d == _str2date(cell.text)
                  IN  IF /\ d.year \in 1..9999
                         /\ d.month \in 1..12
                         /\ d.day \in 1..days_in_month(d.year, d.month)
                      THEN None ELSE Some("ValueError")

\* the exception a line raises, or None, in the order the code runs: the
\* reader's float() of an unquoted field, the unpacking id_, *_, create_at,
\* int(id_), _str2date(create_at), and last the call of Expense
row_error(row) ==
    IF \E i \in 1..Len(row) :
           ~row[i].quoted /\ row[i].text # <<>> /\ ~IsFloatStr(row[i].text)
    THEN Some("ValueError")
    ELSE IF Len(row) < 2 THEN Some("ValueError")
    ELSE IF row[1].quoted /\ ~AllDigits(row[1].text) THEN Some("ValueError")
    ELSE IF date_error(row[Len(row)]) # None THEN date_error(row[Len(row)])
    ELSE IF Len(row) # Len(fields) THEN Some("TypeError")
    ELSE None

\* an exception raised with a message that names a line of the file
RaiseAt(e, line) == [raised |-> Some(e), value |-> None, line |-> line]

\* load_expenses with what it raises: the lines are read in order and the
\* first that raises ends the read; csv.Error becomes SystemExit with the
\* line number, every other exception leaves load_expenses as it is
try_load_expenses(csv_file) ==
    LET rows == csv_file.rows
        bad == {i \in 1..Len(rows) :
                   /\ ~(i = 1 /\ is_header(rows[i]))
                   /\ (csv_error(rows[i]) \/ row_error(rows[i]) # None)}
    IN  IF bad = {} THEN Return(load_expenses(csv_file))
        ELSE LET line == CHOOSE i \in bad : \A j \in bad : i <= j
             IN  IF csv_error(rows[line]) THEN RaiseAt("SystemExit", line)
                 ELSE Raise(row_error(rows[line])[1])

\* save_expenses opening the file with mode "a": the rows it held stay
save_expenses_appending(csv_file, expenses, include_header) ==
    [exists |-> TRUE,
     rows |-> csv_file.rows
                  \o (IF include_header THEN <<header_row>> ELSE <<>>)
                  \o [i \in 1..Len(expenses) |-> to_row(expenses[i])]]

\* save_expenses whose header takes the place of the first expense
save_expenses_headed(csv_file, expenses, include_header) ==
    [exists |-> TRUE,
     rows |-> IF include_header /\ Len(expenses) > 0
              THEN <<header_row>> \o [i \in 1..(Len(expenses) - 1) |-> to_row(expenses[i + 1])]
              ELSE [i \in 1..Len(expenses) |-> to_row(expenses[i])]]

\* save_expenses: mode "w" truncates, then the header if asked, then the rows
save_expenses(csv_file, expenses, include_header) ==
    [exists |-> TRUE,
     rows |-> (IF include_header THEN <<header_row>> ELSE <<>>)
                  \o [i \in 1..Len(expenses) |-> to_row(expenses[i])]]

\* append_expense writing the new row before the rows the file holds
append_expense_first(csv_file, expense) ==
    [exists |-> TRUE, rows |-> <<to_row(expense)>> \o csv_file.rows]

\* append_expense opening the file with mode "w"
append_expense_truncating(csv_file, expense) ==
    [exists |-> TRUE, rows |-> <<to_row(expense)>>]

\* append_expense: mode "a" creates the file or keeps what it holds
append_expense(csv_file, expense) ==
    [exists |-> TRUE, rows |-> Append(csv_file.rows, to_row(expense))]

-----------------------------------------------------------------------------
(* storage.py: the budget file.  A file is [exists, bytes]; a byte is a    *)
(* one-character string, or BadByte for a byte that no UTF-8 text holds.   *)
(* A budget is a record: null is None, Infinity is float("inf") and        *)
(* number(x) is the float of x tenths.                                     *)

null == [kind |-> "null", tenths |-> 0]

Infinity == [kind |-> "inf", tenths |-> 0]

number(x) == [kind |-> "num", tenths |-> x]

\* the byte 0xFF
BadByte == "0xFF"

NoBudgetFile == [exists |-> FALSE, bytes |-> <<>>]

\* [None] + [float("inf")] * 12
default_budgets == <<null>> \o [i \in 1..12 |-> Infinity]

\* json.dumps of one budget: null, Infinity, or the repr of the float
json_item(b) ==
    IF b.kind = "null" THEN <<"n", "u", "l", "l">>
    ELSE IF b.kind = "inf" THEN <<"I", "n", "f", "i", "n", "i", "t", "y">>
    ELSE float2str(b.tenths)

\* ", ".join(items)
RECURSIVE join(_)
join(items) ==
    IF Len(items) = 0 THEN <<>>
    ELSE IF Len(items) = 1 THEN items[1]
    ELSE items[1] \o <<",", " ">> \o join(Tail(items))

\* json.dumps(budgets): "[" item ", " item ... "]"
json_dumps(budgets) ==
    <<"[">> \o join([i \in 1..Len(budgets) |-> json_item(budgets[i])]) \o <<"]">>

\* the text without the white space around it
RECURSIVE strip(_)
strip(s) ==
    IF Len(s) > 0 /\ s[1] = " " THEN strip(Tail(s))
    ELSE IF Len(s) > 0 /\ s[Len(s)] = " " THEN strip(SubSeq(s, 1, Len(s) - 1))
    ELSE s

\* json_scalar of a parser that keeps to the JSON standard, which has no Infinity
json_scalar_strict(s) ==
    IF s = <<"n", "u", "l", "l">> THEN <<null>>
    ELSE IF IsFloatStr(s) THEN <<number(str2float(s))>>
    ELSE <<>>

\* the JSON values that are no array: <<value>>, or <<>> when the text is none
json_scalar(s) ==
    IF s = <<"n", "u", "l", "l">> THEN <<null>>
    ELSE IF s = <<"I", "n", "f", "i", "n", "i", "t", "y">> THEN <<Infinity>>
    ELSE IF IsFloatStr(s) THEN <<number(str2float(s))>>
    ELSE <<>>

\* json.loads(s) for a scalar or an array of scalars (the budget files hold no
\* other JSON): the value, or JSONDecodeError
json_loads(s) ==
    LET t == strip(s)
    IN  IF Len(t) >= 2 /\ t[1] = "[" /\ t[Len(t)] = "]"
        THEN LET inner == strip(SubSeq(t, 2, Len(t) - 1))
                 items == split(inner, ",")
                 values == [i \in 1..Len(items) |-> json_scalar(strip(items[i]))]
             IN  IF inner = <<>> THEN Return(<<>>)
                 ELSE IF \E i \in 1..Len(values) : values[i] = <<>>
                 THEN Raise("JSONDecodeError")
                 ELSE Return([i \in 1..Len(values) |-> values[i][1]])
        ELSE IF json_scalar(t) # <<>> THEN Return(json_scalar(t)[1])
        ELSE Raise("JSONDecodeError")

\* load_budgets: the default when the file is missing or json.load raises
\* JSONDecodeError; fd.read() decodes the bytes as UTF-8 and its
\* UnicodeDecodeError is not caught
load_budgets(json_file) ==
    IF ~json_file.exists THEN Return(default_budgets)
    ELSE IF \E i \in 1..Len(json_file.bytes) : json_file.bytes[i] = BadByte
    THEN Raise("UnicodeDecodeError")
    ELSE LET loaded == json_loads(json_file.bytes)
         IN  IF loaded.raised = Some("JSONDecodeError")
             THEN Return(default_budgets) ELSE loaded

\* save_budgets: mode "w" truncates, then json.dump(budgets, fd)
save_budgets(json_file, budgets) ==
    [exists |-> TRUE, bytes |-> json_dumps(budgets)]

-----------------------------------------------------------------------------
(* The values the handlers are run with.                                   *)

Date(year, month, day) == [year |-> year, month |-> month, day |-> day]

\* Python's a < b on dates
DateLess(a, b) ==
    \/ a.year < b.year
    \/ a.year = b.year /\ a.month < b.month
    \/ a.year = b.year /\ a.month = b.month /\ a.day < b.day

\* the days the clock may show: the last of a year and the first of the next
Days == {Date(2024, 12, 31), Date(2025, 1, 1)}

\* add's --description, --amount (2.5) and --category
AddDescriptions == {<<"t", "e", "a">>}

AddAmounts == {25}

AddCategories == {<<"f", "o", "o", "d">>}

\* update's options: absent, or a value ("" and 0.0 are falsy in Python)
UpdateDescriptions == {None, Some(<<>>)}

UpdateAmounts == {None, Some(0)}

UpdateCategories == {None, Some(<<"f", "u", "n">>)}

\* no TopScoreList made, and no call of guess
NoTopScoreList == [max_count |-> 0, scores |-> <<>>, round |-> [step |-> "none"]]

NoGame == [pc |-> "none"]

\* summary --month (choices 1..12), --year and --category, each optional;
\* the category is any string, the empty one too
SummaryMonths == {None, Some(1), Some(12)}

SummaryYears == {None, Some(2024), Some(2025)}

SummaryCategories ==
    {None, Some(<<>>), Some(<<"f", "o", "o", "d">>), Some(<<"F", "o", "o", "d">>)}

\* export --csv: the path of the ledger itself, or another one
ExportPaths == {"DATABASE", "other"}

\* the scores of the rounds: (attempts, elapsed) with elapsed in tenths of a
\* second, and the names of the players
Scores == {[attempts |-> a, elapsed |-> e] : a \in 1..MaxAttempts, e \in {5, 10}}

Players == {"A", "B"}

\* the secrets, the integers answered and the seconds a game takes (tenths)
Secrets == 2..3

Answers == 1..4

Elapsed == {5, 10}

\* the two invocations run at once, and neither of them started
Procs == {1, 2}

NoInvocations == [run |-> [p \in Procs |-> [pc |-> "start"]], log |-> <<>>]

\* the ids update and delete are asked for: 0 is never assigned
Ids == 0..MaxId

\* budget's --month: one month, two, or all twelve (the default)
BudgetMonths == {<<1>>, <<12>>, <<1, 12>>, [i \in 1..12 |-> i]}

\* budget's --amount: absent, 0.0, 2.5 or INF
BudgetAmounts == {None, Some(number(0)), Some(number(25)), Some(Infinity)}

-----------------------------------------------------------------------------
(* cli.py: the handlers, one invocation of the program each.               *)

\* handle_add's id, were it the length of the ledger plus one
new_id_by_length(expenses) == Len(expenses) + 1

\* new_id without the + 1: the id of the last record again
new_id_last(expenses) ==
    IF Len(expenses) = 0 THEN 1 ELSE expenses[Len(expenses)].id

\* handle_add: expenses[-1].id + 1 if expenses else 1
new_id(expenses) ==
    IF Len(expenses) > 0 THEN expenses[Len(expenses)].id + 1 ELSE 1

\* any(updated_items.values()): "" and 0.0 count as absent
any_given(description, amount, category) ==
    \/ description # None /\ description[1] # <<>>
    \/ amount # None /\ amount[1] # 0
    \/ category # None /\ category[1] # <<>>

\* expenses.pop(): the last record goes, whatever the index
pop_last(expenses, index) == SubSeq(expenses, 1, Len(expenses) - 1)

\* expenses.pop(index)
pop(expenses, index) ==
    SubSeq(expenses, 1, index) \o SubSeq(expenses, index + 2, Len(expenses))

\* sum(exp.amount for exp in expenses)
RECURSIVE sum(_)
sum(expenses) ==
    IF Len(expenses) = 0 THEN 0 ELSE expenses[1].amount + sum(Tail(expenses))

\* total_expense >= budget: the warning given already when the budget is reached
reaches(total_expense, b) == b.kind = "num" /\ total_expense >= b.tenths

\* total_expense > budget: nothing is greater than float("inf")
exceeds(total_expense, b) == b.kind = "num" /\ total_expense > b.tenths

\* _exceed_budget: whether the warning is printed, or the exception that
\* load_budgets raises
_exceed_budget(expenses, month, year, json_file, now) ==
    LET expenses_in_month ==
            filter_by_date(expenses, Some(month), Some(year), now).value
        total_expense == sum(expenses_in_month)
        loaded == load_budgets(json_file)
    IN  IF loaded.raised # None THEN loaded
        ELSE Return(exceeds(total_expense, loaded.value[month + 1]))

\* what _exceed_budget adds to the output: the warning, or main's "Error:"
\* for an exception
warning(outcome) ==
    IF outcome.raised # None THEN <<"Error">>
    ELSE IF outcome.value THEN <<"exceeds">> ELSE <<>>

\* handle_add: load, take the next id, stamp today's date, append one row,
\* then _exceed_budget on the month of the new expense.
\* MaxLen and MaxId bound the model, not the code.
HandleAdd ==
    \E expenses \in {load_expenses(db)} :
        \E description \in AddDescriptions, amount \in AddAmounts,
           category \in AddCategories :
            LET id == new_id(expenses)
                new_expense == Expense(id, description, amount, category, today)
            IN  /\ Len(expenses) < MaxLen
                /\ id <= MaxId
                /\ db' = append_expense(db, new_expense)
                /\ last' = [op |-> "add", before |-> expenses,
                            new |-> new_expense, kind |-> FileKind(db),
                            fresh |-> id \notin assigned,
                            out |-> <<"added">> \o warning(_exceed_budget(
                                        Append(expenses, new_expense),
                                        today.month, today.year, budget, today))]
                /\ assigned' = assigned \cup {id}
                /\ stamp' = Some(today)
                /\ ordered' = (/\ ordered
                               /\ (stamp = None \/ ~DateLess(today, stamp[1])))
                /\ UNCHANGED <<today, seq, call, budget, inv, exported, top, game>>

\* handle_update: refuse when no option is given, warn when the id is not
\* there, else update the record in place, save the whole ledger (without
\* the header) and run _exceed_budget on the month of the record
HandleUpdate ==
    \E expenses \in {load_expenses(db)} :
        \E id_ \in Ids, description \in UpdateDescriptions,
           amount \in UpdateAmounts, category \in UpdateCategories :
            LET index == find_by_id(expenses, id_)
                note == [op |-> "update", before |-> expenses, id |-> id_,
                         description |-> description, amount |-> amount,
                         category |-> category]
            IN  /\ IF ~any_given(description, amount, category)
                   THEN /\ db' = db
                        /\ last' = note @@ [index |-> None, out |-> <<"required">>]
                   ELSE IF index = None
                   THEN /\ db' = db
                        /\ last' = note @@ [index |-> None, out |-> <<"not exist">>]
                   ELSE LET updated == [expenses EXCEPT ![index[1] + 1] =
                                           update(@, description, amount, category)]
                            create_at == expenses[index[1] + 1].create_at
                        IN  /\ db' = save_expenses(db, updated, FALSE)
                            /\ last' = note @@
                                   [index |-> index,
                                    out |-> warning(_exceed_budget(updated,
                                               create_at.month, create_at.year,
                                               budget, today))]
                /\ UNCHANGED <<today, assigned, stamp, ordered, seq, call, budget, inv, exported, top, game>>

\* handle_delete: warn when the id is not there, else pop it and save
HandleDelete ==
    \E expenses \in {load_expenses(db)} :
        \E id_ \in Ids :
            LET index == find_by_id(expenses, id_)
                note == [op |-> "delete", before |-> expenses, id |-> id_]
            IN  /\ IF index = None
                   THEN /\ db' = db
                        /\ last' = note @@ [index |-> None, out |-> <<"not exist">>]
                   ELSE /\ db' = save_expenses(db, pop(expenses, index[1]), FALSE)
                        /\ last' = note @@ [index |-> index, out |-> <<"deleted">>]
                /\ UNCHANGED <<today, assigned, stamp, ordered, seq, call, budget, inv, exported, top, game>>

\* handle_budget: load the table; without --amount print the budgets of the
\* months, with it set the budget of each month and save the table.  An
\* exception of load_budgets ends the invocation in main's "Error:".
HandleBudget ==
    \E loaded \in {load_budgets(budget)} :
        \E month \in BudgetMonths, amount \in BudgetAmounts :
            LET note == [op |-> "budget", file |-> budget, month |-> month,
                         amount |-> amount, loaded |-> loaded]
                budgets == loaded.value
                saved == [i \in 1..Len(budgets) |->
                             IF \E k \in 1..Len(month) : month[k] = i - 1
                             THEN amount[1] ELSE budgets[i]]
            IN  /\ IF loaded.raised # None
                   THEN /\ budget' = budget
                        /\ last' = note @@ [saved |-> None, out |-> <<"Error">>]
                   ELSE IF amount = None
                   THEN /\ budget' = budget
                        /\ last' = note @@
                               [saved |-> None,
                                out |-> [k \in 1..Len(month) |-> budgets[month[k] + 1]]]
                   ELSE /\ budget' = save_budgets(budget, saved)
                        /\ last' = note @@ [saved |-> Some(saved), out |-> <<>>]
                /\ UNCHANGED <<db, today, assigned, stamp, ordered, seq, call, inv, exported, top, game>>

\* handle_summary: load, filter by date when a month or a year is given, then
\* by category when one is given, and print the sum of the amounts.  The
\* heading takes args.category[0], the IndexError of the empty string.
HandleSummary ==
    \E expenses \in {load_expenses(db)} :
        \E month \in SummaryMonths, year \in SummaryYears,
           category \in SummaryCategories :
            LET by_date == IF month # None \/ year # None
                           THEN filter_by_date(expenses, month, year, today).value
                           ELSE expenses
                by_category == IF category # None
                               THEN filter_by_category(by_date, category[1])
                               ELSE by_date
                total == sum(by_category)
            IN  /\ last' = [op |-> "summary", file |-> db, table |-> budget,
                            before |-> expenses, month |-> month, year |-> year,
                            category |-> category, now |-> today,
                            out |-> IF category # None /\ category[1] = <<>>
                                    THEN Raise("IndexError") ELSE Return(total)]
                /\ UNCHANGED <<db, today, assigned, stamp, ordered, seq, call, budget, inv, exported, top, game>>

\* handle_export: load the ledger and save it to args.csv, with the header
\* when --include is given; args.csv is any path, the ledger's own too
HandleExport ==
    \E expenses \in {load_expenses(db)} :
        \E csv \in ExportPaths, include \in BOOLEAN :
            /\ IF csv = "DATABASE"
               THEN /\ db' = save_expenses(db, expenses, include)
                    /\ exported' = exported
               ELSE /\ exported' = save_expenses(exported, expenses, include)
                    /\ db' = db
            /\ last' = [op |-> "export", file |-> db, table |-> budget,
                        before |-> expenses, csv |-> csv, include |-> include]
            /\ UNCHANGED <<today, assigned, stamp, ordered, seq, call, budget, inv, top, game>>

\* score < (attempts, elapsed): tuples compare item by item
ScoreLess(a, b) ==
    \/ a.attempts < b.attempts
    \/ a.attempts = b.attempts /\ a.elapsed < b.elapsed

\* TopScoreList.ranking: None when the list is full and the score does not
\* beat its last entry, else the rank of the first entry the score beats,
\* or one past the list
ranking(high_scores, max_count, score) ==
    IF /\ Len(high_scores) = max_count
       /\ ~ScoreLess(score, high_scores[Len(high_scores)])
    THEN None
    ELSE IF \E k \in 1..Len(high_scores) : ScoreLess(score, high_scores[k])
    THEN Some(CHOOSE k \in 1..Len(high_scores) :
                 /\ ScoreLess(score, high_scores[k])
                 /\ \A j \in 1..(k - 1) : ~ScoreLess(score, high_scores[j]))
    ELSE Some(Len(high_scores) + 1)

\* TopScoreList.update_scores: deque.insert(ranking - 1, (*score, player));
\* on a deque that holds maxlen items insert raises IndexError
update_scores(high_scores, max_count, rank_, score, player) ==
    IF Len(high_scores) = max_count THEN Raise("IndexError")
    ELSE Return(SubSeq(high_scores, 1, rank_ - 1)
                    \o <<[attempts |-> score.attempts, elapsed |-> score.elapsed,
                          player |-> player]>>
                    \o SubSeq(high_scores, rank_, Len(high_scores)))

\* game.py rank: the ranking of the score and, when there is one, the update
\* of the list with the name of the player.  An exception ends the game.
Rank ==
    \E score \in Scores, player \in Players :
        LET r == ranking(top.scores, top.max_count, score)
            updated == IF r = None THEN Return(top.scores)
                       ELSE update_scores(top.scores, top.max_count, r[1],
                                          score, player)
        IN  /\ top.round.step \in {"loaded", "ranked"}
            /\ top' = [max_count |-> top.max_count,
                       scores |-> IF updated.raised = None THEN updated.value
                                  ELSE top.scores,
                       round |-> [step |-> IF updated.raised = None
                                           THEN "ranked" ELSE "raised",
                                  score |-> score, player |-> player,
                                  ranking |-> r, before |-> top.scores,
                                  raised |-> updated.raised]]
            /\ UNCHANGED <<db, today, last, assigned, stamp, ordered, seq, call, budget, inv, exported, game>>

\* provide_hint: the hint printed with 1, 2 or 3 attempts left, none otherwise
provide_hint(secret, guess_, attempts_left) ==
    IF attempts_left = 1
    THEN IF secret % 3 = 0 THEN <<"Hint: multiple of 3">>
         ELSE IF secret % 5 = 0 THEN <<"Hint: multiple of 5">>
         ELSE IF secret % 7 = 0 THEN <<"Hint: multiple of 7">>
         ELSE <<"Hint: sum of digits">>
    ELSE IF attempts_left = 2
    THEN IF secret % 2 = 0 THEN <<"Hint: even">> ELSE <<"Hint: odd">>
    ELSE IF attempts_left = 3
    THEN LET diff == IF secret < guess_ THEN guess_ - secret ELSE secret - guess_
         IN  IF diff <= 5 THEN <<"Hint: very close">>
             ELSE IF diff <= 10 THEN <<"Hint: close">>
             ELSE <<"Hint: very far">>
    ELSE <<>>

\* the wrong answer reported the other way round
incorrect_swapped(secret, answer) ==
    IF answer < secret THEN "less" ELSE "greater"

\* guess, on a wrong answer: "The number is greater than" an answer below
\* the secret, "less than" any other
incorrect(secret, answer) ==
    IF answer < secret THEN "greater" ELSE "less"

\* _input_int, on a line that is no integer: "Invalid input", and it asks
\* again.  MaxInvalid bounds the model, not the code.
InvalidInput ==
    /\ game.pc = "for"
    /\ game.invalid < MaxInvalid
    /\ game' = [game EXCEPT !.invalid = @ + 1, !.out = Append(@, "Invalid input")]
    /\ UNCHANGED <<db, today, last, assigned, stamp, ordered, seq, call, budget, inv, exported, top>>

\* guess, one turn of for attempts in range(1, chances + 1): an integer is
\* read; the secret returns (attempts, elapsed); another number is reported
\* and hinted at, and after the last turn the else of the for prints "run
\* out of chances" and None is returned
GuessAttempt ==
    \E answer \in Answers, elapsed \in Elapsed :
        LET attempts == game.attempts
            read == [game EXCEPT !.answers = Append(@, answer)]
            said == game.out \o <<incorrect(game.secret, answer)>>
                        \o provide_hint(game.secret, answer, game.chances - attempts)
        IN  /\ game.pc = "for"
            /\ game' = IF answer = game.secret
                       THEN [read EXCEPT !.pc = "returned",
                                         !.out = Append(@, "Congratulations"),
                                         !.result = Some([attempts |-> attempts,
                                                          elapsed |-> elapsed])]
                       ELSE IF attempts = game.chances
                       THEN [read EXCEPT !.pc = "returned",
                                         !.out = Append(said, "run out of chances")]
                       ELSE [read EXCEPT !.attempts = @ + 1, !.out = said]
            /\ UNCHANGED <<db, today, last, assigned, stamp, ordered, seq, call, budget, inv, exported, top>>

\* the clock between two invocations: any day, for it can be set back
Tick ==
    /\ today' \in Days \ {today}
    /\ UNCHANGED <<db, last, assigned, stamp, ordered, seq, call, budget, inv, exported, top, game>>

Init ==
    /\ db \in {NoFile, [exists |-> TRUE, rows |-> <<>>]}
    /\ today \in Days
    /\ last = [op |-> "none"]
    /\ assigned = {}
    /\ stamp = None
    /\ ordered = TRUE
    /\ seq = <<>>
    /\ call = [fn |-> "none"]
    /\ budget = NoBudgetFile
    /\ inv = NoInvocations
    /\ exported = NoFile
    /\ top = NoTopScoreList
    /\ game = NoGame

Next ==
    \/ HandleAdd
    \/ HandleUpdate
    \/ HandleDelete
    \/ Tick

Spec == Init /\ [][Next]_vars

-----------------------------------------------------------------------------
(* The searches of expense.py run on their own: a list is drawn, then the  *)
(* functions are called on it.                                             *)

\* the dates of the lists searched: around two turns of a year
SearchDays ==
    {Date(2024, 12, 31), Date(2025, 1, 1), Date(2025, 7, 17),
     Date(2025, 12, 31), Date(2026, 1, 1)}

SearchYears == {2024, 2025, 2026}

\* an expense of the lists searched; only its id and its date matter
Entry(id, day) == Expense(id, <<"t", "e", "a">>, 25, <<"f", "o", "o", "d">>, day)

\* the lists the code searches are in order: ids that never decrease (some
\* equal, some skipped) on one day, and days that never decrease with ids 1, 2, ...
SearchLists ==
    UNION {
        {[i \in 1..n |-> Entry(ids[i], Date(2025, 7, 17))] :
            ids \in {f \in [1..n -> 1..MaxKey] :
                        \A i \in 1..(n - 1) : f[i] <= f[i + 1]}}
        \cup {[i \in 1..n |-> Entry(i, days[i])] :
                 days \in {f \in [1..n -> SearchDays] :
                             \A i \in 1..(n - 1) : ~DateLess(f[i + 1], f[i])}}
        : n \in 0..MaxSeqLen}

\* the targets _first_ge_index is called with under each key
Targets(key) ==
    IF key = "id" THEN 0..(MaxKey + 1)
    ELSE {<<y, m>> : y \in SearchYears, m \in {1, 12, 13}}

CallFirstGeIndex ==
    \E key \in {"id", "year_and_month"} :
        \E target \in Targets(key), low \in 0..Len(seq), high \in 0..Len(seq) :
            /\ call.fn = "none"
            /\ low <= high
            /\ call' = [fn |-> "_first_ge_index", target |-> target,
                        low |-> low, high |-> high, key |-> key,
                        result |-> _first_ge_index(seq, target, low, high, key)]
            /\ UNCHANGED <<db, today, last, assigned, stamp, ordered, seq, budget, inv, exported, top, game>>

CallFindById ==
    \E id_ \in 0..(MaxKey + 1) :
        /\ call.fn = "none"
        /\ call' = [fn |-> "find_by_id", id |-> id_,
                    result |-> find_by_id(seq, id_)]
        /\ UNCHANGED <<db, today, last, assigned, stamp, ordered, seq, budget, inv, exported, top, game>>

CallFilterByDate ==
    \E month \in {None} \cup {Some(m) : m \in 1..12},
       year \in {None} \cup {Some(y) : y \in SearchYears} :
        /\ call.fn = "none"
        /\ call' = [fn |-> "filter_by_date", month |-> month, year |-> year,
                    now |-> today,
                    result |-> filter_by_date(seq, month, year, today)]
        /\ UNCHANGED <<db, today, last, assigned, stamp, ordered, seq, budget, inv, exported, top, game>>

SearchInit ==
    /\ seq \in SearchLists
    /\ call = [fn |-> "none"]
    /\ today \in {Date(2025, 12, 31), Date(2026, 1, 1)}
    /\ db = NoFile
    /\ last = [op |-> "none"]
    /\ assigned = {}
    /\ stamp = None
    /\ ordered = TRUE
    /\ budget = NoBudgetFile
    /\ inv = NoInvocations
    /\ exported = NoFile
    /\ top = NoTopScoreList
    /\ game = NoGame

SearchNext ==
    \/ CallFirstGeIndex
    \/ CallFindById
    \/ CallFilterByDate

SearchSpec == SearchInit /\ [][SearchNext]_vars

-----------------------------------------------------------------------------
(* filter_by_category run on its own, as tests/test_expense.py runs it, on *)
(* lists in any order.                                                     *)

Categories == {<<"f", "o", "o", "d">>, <<"F", "o", "o", "d">>, <<"f", "u", "n">>}

\* lists in no order: any ids, any of the categories
CategoryLists ==
    UNION {[1..n -> {Expense(id, <<"t", "e", "a">>, 25, c, Date(2025, 7, 17)) :
                        id \in 1..MaxCatId, c \in Categories}]
           : n \in 0..MaxCatLen}

CallFilterByCategory ==
    \E category \in Categories \cup {<<"X">>} :
        /\ call.fn = "none"
        /\ call' = [fn |-> "filter_by_category", category |-> category,
                    result |-> filter_by_category(seq, category)]
        /\ UNCHANGED <<db, today, last, assigned, stamp, ordered, seq, budget, inv, exported, top, game>>

CategoryInit ==
    /\ seq \in CategoryLists
    /\ call = [fn |-> "none"]
    /\ today = Date(2025, 12, 31)
    /\ db = NoFile
    /\ last = [op |-> "none"]
    /\ assigned = {}
    /\ stamp = None
    /\ ordered = TRUE
    /\ budget = NoBudgetFile
    /\ inv = NoInvocations
    /\ exported = NoFile
    /\ top = NoTopScoreList
    /\ game = NoGame

CategoryNext == CallFilterByCategory

CategorySpec == CategoryInit /\ [][CategoryNext]_vars

-----------------------------------------------------------------------------
(* _first_ge_index run pass by pass: the call, each pass of its while      *)
(* loop, and the return.  The lists are in any order; the one thread of    *)
(* the program always takes its next step, which is the fairness of        *)
(* LoopSpec.                                                               *)

LoopLists ==
    UNION {[1..n -> {Entry(id, Date(2025, 7, 17)) : id \in 1..MaxLoopKey}]
           : n \in 0..MaxLoopLen}

Enter ==
    \E key \in {"id", "year_and_month"} :
        \E target \in Targets(key), low \in 0..Len(seq), high \in 0..Len(seq) :
            /\ call.fn = "none"
            /\ low <= high
            /\ call' = [fn |-> "_first_ge_index", pc |-> "while",
                        args |-> [target |-> target, low |-> low,
                                  high |-> high, key |-> key],
                        low |-> low, high |-> high, reads |-> {}]
            /\ UNCHANGED <<db, today, last, assigned, stamp, ordered, seq, budget, inv, exported, top, game>>

\* while low < high: one pass
Pass ==
    /\ call.fn = "_first_ge_index"
    /\ call.pc = "while"
    /\ call.low < call.high
    /\ LET pass == _first_ge_index_pass(seq, call.args.target, call.low,
                                        call.high, call.args.key)
       IN  call' = [call EXCEPT !.low = pass.low, !.high = pass.high,
                                !.reads = @ \cup {pass.read}]
    /\ UNCHANGED <<db, today, last, assigned, stamp, ordered, seq, budget, inv, exported, top, game>>

\* return low
Leave ==
    /\ call.fn = "_first_ge_index"
    /\ call.pc = "while"
    /\ ~(call.low < call.high)
    /\ call' = [call EXCEPT !.pc = "return"] @@ [result |-> call.low]
    /\ UNCHANGED <<db, today, last, assigned, stamp, ordered, seq, budget, inv, exported, top, game>>

LoopInit ==
    /\ seq \in LoopLists
    /\ call = [fn |-> "none"]
    /\ today = Date(2025, 12, 31)
    /\ db = NoFile
    /\ last = [op |-> "none"]
    /\ assigned = {}
    /\ stamp = None
    /\ ordered = TRUE
    /\ budget = NoBudgetFile
    /\ inv = NoInvocations
    /\ exported = NoFile
    /\ top = NoTopScoreList
    /\ game = NoGame

LoopNext ==
    \/ Enter
    \/ Pass
    \/ Leave

LoopSpec == LoopInit /\ [][LoopNext]_vars /\ WF_vars(LoopNext)

-----------------------------------------------------------------------------
(* The top score list of one difficulty level over the rounds of a game:   *)
(* made with a capacity, loaded from no file, then ranked into round after *)
(* round.                                                                  *)

ScoreInit ==
    /\ top \in {[max_count |-> n, scores |-> <<>>, round |-> [step |-> "loaded"]] :
                    n \in 1..MaxCount}
    /\ seq = <<>>
    /\ call = [fn |-> "none"]
    /\ today = Date(2025, 12, 31)
    /\ db = NoFile
    /\ last = [op |-> "none"]
    /\ assigned = {}
    /\ stamp = None
    /\ ordered = TRUE
    /\ budget = NoBudgetFile
    /\ inv = NoInvocations
    /\ exported = NoFile
    /\ game = NoGame

ScoreNext == Rank

ScoreSpec == ScoreInit /\ [][ScoreNext]_vars

-----------------------------------------------------------------------------
(* One call of guess(secret, chances), turn by turn, as tests/test_game.py *)
(* runs it with the answers fed to input.                                  *)

GuessInit ==
    /\ game \in {[pc |-> "for", secret |-> secret, chances |-> chances,
                   attempts |-> 1, answers |-> <<>>, invalid |-> 0,
                   out |-> <<"Let's start the game!">>, result |-> None] :
                    secret \in Secrets, chances \in 1..MaxChances}
    /\ top = NoTopScoreList
    /\ seq = <<>>
    /\ call = [fn |-> "none"]
    /\ today = Date(2025, 12, 31)
    /\ db = NoFile
    /\ last = [op |-> "none"]
    /\ assigned = {}
    /\ stamp = None
    /\ ordered = TRUE
    /\ budget = NoBudgetFile
    /\ inv = NoInvocations
    /\ exported = NoFile

GuessNext ==
    \/ GuessAttempt
    \/ InvalidInput

GuessSpec == GuessInit /\ [][GuessNext]_vars

-----------------------------------------------------------------------------
(* storage.py run on its own, as its tests run it: lists are saved to a    *)
(* path with or without the header, expenses are appended to it, and       *)
(* handle_add is run on what results.                                      *)

\* expenses with an id of two digits, an empty description, the amounts 0.0,
\* 2.5 and 15.0, and a year of three digits
StorageEntries ==
    {Expense(1, <<"t", "e", "a">>, 25, <<"f", "o", "o", "d">>, Date(2024, 12, 31)),
     Expense(12, <<>>, 0, <<"f", "u", "n">>, Date(2025, 1, 1)),
     Expense(3, <<"1", "2">>, 150, <<"f", "o", "o", "d">>, Date(987, 6, 5))}

StorageLists ==
    UNION {[1..n -> StorageEntries] : n \in 0..MaxSaved}

SaveExpenses ==
    \E before \in {load_expenses(db)} :
        \E expenses \in StorageLists, include_header \in BOOLEAN :
            /\ db' = save_expenses(db, expenses, include_header)
            /\ last' = [op |-> "save", before |-> before, expenses |-> expenses,
                        include_header |-> include_header]
            /\ UNCHANGED <<today, assigned, stamp, ordered, seq, call, budget, inv, exported, top, game>>

AppendExpense ==
    \E before \in {load_expenses(db)} :
        \E expense \in StorageEntries :
            /\ Len(db.rows) < MaxRows
            /\ db' = append_expense(db, expense)
            /\ last' = [op |-> "append", before |-> before, new |-> expense,
                        kind |-> FileKind(db)]
            /\ UNCHANGED <<today, assigned, stamp, ordered, seq, call, budget, inv, exported, top, game>>

StorageInit ==
    /\ db = NoFile
    /\ today = Date(2025, 7, 17)
    /\ last = [op |-> "none"]
    /\ assigned = {}
    /\ stamp = None
    /\ ordered = TRUE
    /\ seq = <<>>
    /\ call = [fn |-> "none"]
    /\ budget = NoBudgetFile
    /\ inv = NoInvocations
    /\ exported = NoFile
    /\ top = NoTopScoreList
    /\ game = NoGame

StorageNext ==
    \/ SaveExpenses
    \/ AppendExpense
    \/ HandleAdd

StorageSpec == StorageInit /\ [][StorageNext]_vars

-----------------------------------------------------------------------------
(* load_expenses run on its own on files written by hand: lines that       *)
(* save_expenses writes, and lines that are malformed.                     *)

\* the most lines of a file written by hand, the header not counted
MaxLines == 2

GoodRow ==
    to_row(Expense(1, <<"t", "e", "a">>, 25, <<"f", "o", "o", "d">>,
                   Date(2024, 12, 31)))

\* too few fields, too many, none; an id and an amount that are no numbers,
\* unquoted and quoted; a date of two parts, of a 13th month, of a 30th of
\* February, and one that is a number
MalformedRows ==
    {SubSeq(GoodRow, 1, 4),
     Append(GoodRow, Quoted(<<"x">>)),
     <<>>,
     [GoodRow EXCEPT ![1] = Unquoted(<<"a", "b", "c">>)],
     [GoodRow EXCEPT ![1] = Quoted(<<"a", "b", "c">>)],
     [GoodRow EXCEPT ![3] = Unquoted(<<"a", "b", "c">>)],
     [GoodRow EXCEPT ![3] = Quoted(<<"a", "b", "c">>)],
     [GoodRow EXCEPT ![5] = Quoted(SubSeq(date2str(Date(2024, 12, 31)), 1, 7))],
     [GoodRow EXCEPT ![5] = Quoted(date2str(Date(2024, 13, 31)))],
     [GoodRow EXCEPT ![5] = Quoted(date2str(Date(2025, 2, 30)))],
     [GoodRow EXCEPT ![5] = Unquoted(<<"2", "0", "2", "4">>)]}

RawRows ==
    {GoodRow,
     [GoodRow EXCEPT ![1] = Quoted(<<"2">>)],
     to_row(Expense(3, <<>>, 0, <<"f", "u", "n">>, Date(2025, 1, 1)))}
        \cup MalformedRows

RawFiles ==
    {NoFile}
        \cup UNION {{[exists |-> TRUE, rows |-> head \o rows] :
                        rows \in [1..n -> RawRows],
                        head \in {<<>>, <<header_row>>}} : n \in 0..MaxLines}

CallLoadExpenses ==
    /\ call' = [fn |-> "load_expenses", result |-> try_load_expenses(db)]
    /\ UNCHANGED <<db, today, last, assigned, stamp, ordered, seq, budget, inv, exported, top, game>>

LoadInit ==
    /\ db \in RawFiles
    /\ call = [fn |-> "none"]
    /\ today = Date(2025, 7, 17)
    /\ last = [op |-> "none"]
    /\ assigned = {}
    /\ stamp = None
    /\ ordered = TRUE
    /\ seq = <<>>
    /\ budget = NoBudgetFile
    /\ inv = NoInvocations
    /\ exported = NoFile
    /\ top = NoTopScoreList
    /\ game = NoGame

LoadNext == CallLoadExpenses

LoadSpec == LoadInit /\ [][LoadNext]_vars

-----------------------------------------------------------------------------
(* The handlers run as tests/test_cli.py runs them: the fixture writes the *)
(* ledger and the budget file, then one handler is invoked.                *)

FixtureEntry(id, day) ==
    Expense(id, <<"t", "e", "a">>, 25, <<"f", "o", "o", "d">>, day)

\* ledgers as the handlers keep them: ids that increase, some skipped, and
\* dates that never decrease
LedgerFixtures ==
    UNION {{[i \in 1..n |-> FixtureEntry(ids[i], days[i])] :
               ids \in {f \in [1..n -> 1..MaxId] :
                           \A i \in 1..(n - 1) : f[i] < f[i + 1]},
               days \in {g \in [1..n -> Days] :
                            \A i \in 1..(n - 1) : ~DateLess(g[i + 1], g[i])}}
           : n \in 0..MaxLen}

LedgerFiles ==
    {NoFile} \cup {save_expenses(NoFile, expenses, FALSE) :
                      expenses \in LedgerFixtures}

\* the budgets of January and of December: uncapped, 0.0 or 2.5
BudgetTables ==
    {[i \in 1..13 |-> IF i = 2 THEN january ELSE IF i = 13 THEN december
                      ELSE default_budgets[i]] :
        january \in {Infinity, number(0), number(25)},
        december \in {Infinity, number(0), number(25)}}

\* write_text("not a json")
NotJson == <<"n", "o", "t", " ", "a", " ", "j", "s", "o", "n">>

\* a budget file that is missing, empty, no JSON (text, a table cut short,
\* bytes that are no text), or written by save_budgets
InvalidBudgetFiles ==
    {[exists |-> TRUE, bytes |-> NotJson],
     [exists |-> TRUE, bytes |-> SubSeq(json_dumps(default_budgets), 1, 15)],
     [exists |-> TRUE, bytes |-> <<BadByte, BadByte>>],
     [exists |-> TRUE, bytes |-> <<"[", "n", "u", "l", "l", ",", " ", BadByte>>]}

BudgetFiles ==
    {NoBudgetFile, [exists |-> TRUE, bytes |-> <<>>]}
        \cup InvalidBudgetFiles
        \cup {save_budgets(NoBudgetFile, budgets) : budgets \in BudgetTables}

BudgetInit ==
    /\ db \in LedgerFiles
    /\ budget \in BudgetFiles
    /\ today \in Days
    /\ last = [op |-> "none"]
    /\ assigned = {}
    /\ stamp = None
    /\ ordered = TRUE
    /\ seq = <<>>
    /\ call = [fn |-> "none"]
    /\ inv = NoInvocations
    /\ exported = NoFile
    /\ top = NoTopScoreList
    /\ game = NoGame

BudgetNext ==
    \/ last.op = "none" /\ HandleBudget
    \/ last.op = "none" /\ HandleAdd
    \/ last.op = "none" /\ HandleUpdate
    \/ last.op = "none" /\ HandleDelete

BudgetSpec == BudgetInit /\ [][BudgetNext]_vars

-----------------------------------------------------------------------------
(* One summary or one export, on each ledger the handlers can have left:   *)
(* expenses of several amounts and categories, with or without the header. *)

ReportEntries(id, day) ==
    {Expense(id, <<"t", "e", "a">>, amount, category, day) :
        amount \in {25, 150},
        category \in {<<>>, <<"f", "o", "o", "d">>, <<"F", "o", "o", "d">>}}

\* ids that increase, some skipped, and dates that never decrease
ReportLedgers ==
    UNION {{f \in [1..n -> UNION {ReportEntries(id, day) :
                                     id \in 1..MaxId, day \in Days}] :
               \A i \in 1..(n - 1) : /\ f[i].id < f[i + 1].id
                                     /\ ~DateLess(f[i + 1].create_at, f[i].create_at)}
           : n \in 0..MaxReportLen}

ReportFiles ==
    {NoFile} \cup {save_expenses(NoFile, expenses, include) :
                      expenses \in ReportLedgers, include \in BOOLEAN}

ReportInit ==
    /\ db \in ReportFiles
    /\ exported \in {NoFile, save_expenses(NoFile, <<FixtureEntry(1, Date(2024, 12, 31))>>, FALSE)}
    /\ budget \in {NoBudgetFile, save_budgets(NoBudgetFile, default_budgets)}
    /\ today \in Days
    /\ last = [op |-> "none"]
    /\ assigned = {}
    /\ stamp = None
    /\ ordered = TRUE
    /\ seq = <<>>
    /\ call = [fn |-> "none"]
    /\ inv = NoInvocations
    /\ top = NoTopScoreList
    /\ game = NoGame

ReportNext ==
    \/ last.op = "none" /\ HandleSummary
    \/ last.op = "none" /\ HandleExport

ReportSpec == ReportInit /\ [][ReportNext]_vars

-----------------------------------------------------------------------------
(* Two invocations at once on one ledger.  There is no lock: each loads    *)
(* the file (cli.py lines 58, 78, 88) and later writes it (lines 63, 84,   *)
(* 94), and the steps of the two interleave in any order.                  *)

\* the command lines: add, update --category or --amount --category, delete
Commands ==
    {[op |-> "add", description |-> <<"t", "e", "a">>, amount |-> 25,
      category |-> <<"f", "o", "o", "d">>]}
        \cup {[op |-> "update", id |-> id_, description |-> None,
               amount |-> amount, category |-> Some(<<"f", "u", "n">>)] :
                 id_ \in Ids, amount \in UpdateAmounts}
        \cup {[op |-> "delete", id |-> id_] : id_ \in Ids}

\* what the invocation holds in memory when it writes: the ledger it loaded
\* with its own change made
changed(cmd, expenses, now) ==
    IF cmd.op = "add"
    THEN Append(expenses, Expense(new_id(expenses), cmd.description,
                                  cmd.amount, cmd.category, now))
    ELSE LET index == find_by_id(expenses, cmd.id)
         IN  IF index = None THEN expenses
             ELSE IF cmd.op = "update"
             THEN [expenses EXCEPT ![index[1] + 1] =
                      update(@, cmd.description, cmd.amount, cmd.category)]
             ELSE pop(expenses, index[1])

\* how the invocation writes: append_expense, save_expenses, or not at all
\* when the id is not there
writes(cmd, expenses) ==
    IF cmd.op = "add" THEN "append"
    ELSE IF find_by_id(expenses, cmd.id) = None THEN "none" ELSE "save"

\* the first step of a handler: expenses = load_expenses(DATABASE)
Load(p) ==
    /\ inv.run[p].pc = "start"
    /\ \E cmd \in Commands :
           inv' = [run |-> [inv.run EXCEPT ![p] =
                               [pc |-> "loaded", cmd |-> cmd,
                                expenses |-> load_expenses(db)]],
                   log |-> Append(inv.log, <<p, "load">>)]
    /\ UNCHANGED <<db, today, last, assigned, stamp, ordered, seq, call, budget, exported, top, game>>

\* the second step: append_expense or save_expenses of what is in memory
Write(p) ==
    /\ inv.run[p].pc = "loaded"
    /\ LET cmd == inv.run[p].cmd
           expenses == inv.run[p].expenses
           mine == changed(cmd, expenses, today)
           how == writes(cmd, expenses)
       IN  /\ db' = IF how = "append" THEN append_expense(db, mine[Len(mine)])
                    ELSE IF how = "save" THEN save_expenses(db, mine, FALSE)
                    ELSE db
           /\ inv' = [run |-> [inv.run EXCEPT ![p] =
                                  [pc |-> "done", cmd |-> cmd,
                                   expenses |-> expenses, mine |-> mine,
                                   how |-> how]],
                      log |-> Append(inv.log, <<p, "write">>)]
    /\ UNCHANGED <<today, last, assigned, stamp, ordered, seq, call, budget, exported, top, game>>

ConcurrentInit ==
    /\ db \in LedgerFiles
    /\ today = Date(2025, 1, 1)
    /\ last = [op |-> "none"]
    /\ assigned = {}
    /\ stamp = None
    /\ ordered = TRUE
    /\ seq = <<>>
    /\ call = [fn |-> "none"]
    /\ budget = NoBudgetFile
    /\ inv = NoInvocations
    /\ exported = NoFile
    /\ top = NoTopScoreList
    /\ game = NoGame

ConcurrentNext == \E p \in Procs : Load(p) \/ Write(p)

ConcurrentSpec == ConcurrentInit /\ [][ConcurrentNext]_vars

-----------------------------------------------------------------------------
(* What the claims say of the searches.                                    *)

Ids_of(expenses) == [i \in 1..Len(expenses) |-> expenses[i].id]

\* the code indices low .. high - 1 of s are in order under key
SortedBy(s, key, low, high) ==
    \A j \in (low + 1)..(high - 1) :
        ~Less(key, KeyOf(key, s[j + 1]), KeyOf(key, s[j]))

SortedByDate(expenses) ==
    \A j \in 1..(Len(expenses) - 1) :
        ~DateLess(expenses[j + 1].create_at, expenses[j].create_at)

StrictlyIncreasingIds(expenses) ==
    \A j \in 1..(Len(expenses) - 1) : expenses[j].id < expenses[j + 1].id

C2_FindById ==
    (call.fn = "find_by_id" /\ StrictlyIncreasingIds(seq)) =>
        /\ \A i \in 0..(Len(seq) - 1) :
               seq[i + 1].id = call.id => call.result = Some(i)
        /\ (\A i \in 1..Len(seq) : seq[i].id # call.id) => call.result = None

\* a skipped id, between two ids of the ledger, is not found
C2_Witness ==
    /\ call.fn = "find_by_id"
    /\ StrictlyIncreasingIds(seq)
    /\ \E i \in 1..Len(seq) : seq[i].id < call.id
    /\ \E i \in 1..Len(seq) : seq[i].id > call.id
    /\ \A i \in 1..Len(seq) : seq[i].id # call.id
    /\ call.result = None

\* C3: on a ledger sorted by date, filter_by_date with a month and a year
\* returns exactly the records of that month of that year, in ledger order and
\* as one slice of the ledger; for month 12 none of them is of January of the
\* next year.
C3_FilterByMonth ==
    (call.fn = "filter_by_date" /\ call.month # None /\ call.year # None
        /\ SortedByDate(seq)) =>
        LET InMonth(e) == /\ e.create_at.year = call.year[1]
                          /\ e.create_at.month = call.month[1]
            got == call.result.value
        IN  /\ call.result.raised = None
            /\ got = SelectSeq(seq, InMonth)
            /\ \E a \in 1..(Len(seq) + 1), b \in 0..Len(seq) :
                   got = SubSeq(seq, a, b)
            /\ call.month[1] = 12 =>
                   \A i \in 1..Len(got) :
                       ~(got[i].create_at.year = call.year[1] + 1
                           /\ got[i].create_at.month = 1)

\* December is asked for on a ledger that holds December and the January after it
C3_Witness ==
    /\ call.fn = "filter_by_date"
    /\ call.month = Some(12)
    /\ call.year # None
    /\ SortedByDate(seq)
    /\ \E i \in 1..Len(seq) : year_and_month(seq[i]) = <<call.year[1], 12>>
    /\ \E i \in 1..Len(seq) : year_and_month(seq[i]) = <<call.year[1] + 1, 1>>
    /\ Len(call.result.value) > 0
    /\ Len(call.result.value) < Len(seq)

\* the concatenation of filter_by_date(expenses, m, year) for m = month .. 12
RECURSIVE MonthsFrom(_, _, _, _)
MonthsFrom(expenses, month, year, now) ==
    IF month > 12 THEN <<>>
    ELSE filter_by_date(expenses, Some(month), Some(year), now).value
             \o MonthsFrom(expenses, month + 1, year, now)

\* C18: on a ledger sorted by date, filter_by_date with a year and no month
\* returns the concatenation of what it returns for the months 1 to 12 of that
\* year, in order, and none of the records returned is of another year (so
\* none of the year before or the year after).
C18_YearIsTwelveMonths ==
    (call.fn = "filter_by_date" /\ call.month = None /\ call.year # None
        /\ SortedByDate(seq)) =>
        LET got == call.result.value
        IN  /\ call.result.raised = None
            /\ got = MonthsFrom(seq, 1, call.year[1], call.now)
            /\ \A i \in 1..Len(got) : got[i].create_at.year = call.year[1]

\* a year is asked for on a ledger that holds the year before, two months of
\* the year, and the year after
C18_Witness ==
    /\ call.fn = "filter_by_date"
    /\ call.month = None
    /\ call.year # None
    /\ SortedByDate(seq)
    /\ \E i \in 1..Len(seq) : seq[i].create_at.year = call.year[1] - 1
    /\ \E i \in 1..Len(seq) : seq[i].create_at.year = call.year[1] + 1
    /\ Len(call.result.value) = 2
    /\ call.result.value[1].create_at.month # call.result.value[2].create_at.month

\* C19: filter_by_date with neither a month nor a year raises TypeError (one
\* of the arguments is required) and returns no list, on every ledger, the
\* empty one too.
C19_ArgumentRequired ==
    (call.fn = "filter_by_date" /\ call.month = None /\ call.year = None) =>
        /\ call.result.raised = Some("TypeError")
        /\ call.result.value = None

\* neither is given on the empty ledger
C19_Witness ==
    /\ call.fn = "filter_by_date"
    /\ call.month = None
    /\ call.year = None
    /\ seq = <<>>
    /\ call.result.raised # None

\* C20: on a ledger sorted by date, filter_by_date with a month and no year
\* returns the records of that month of the year of date.today() at the call,
\* which is what it returns when that year is given.
C20_YearDefaultsToCurrent ==
    (call.fn = "filter_by_date" /\ call.month # None /\ call.year = None
        /\ SortedByDate(seq)) =>
        LET InMonth(e) == /\ e.create_at.year = call.now.year
                          /\ e.create_at.month = call.month[1]
        IN  /\ call.result.raised = None
            /\ call.result.value = SelectSeq(seq, InMonth)
            /\ call.result =
                   filter_by_date(seq, call.month, Some(call.now.year), call.now)

\* January is asked for, with no year, on a ledger that holds the January of
\* this year and the one of the year before
C20_Witness ==
    /\ call.fn = "filter_by_date"
    /\ call.month = Some(1)
    /\ call.year = None
    /\ SortedByDate(seq)
    /\ \E i \in 1..Len(seq) : year_and_month(seq[i]) = <<call.now.year - 1, 1>>
    /\ \E i \in 1..Len(seq) : year_and_month(seq[i]) = <<call.now.year, 1>>
    /\ Len(call.result.value) > 0
    /\ \A i \in 1..Len(call.result.value) :
           call.result.value[i].create_at.year = call.now.year

-----------------------------------------------------------------------------
(* What the claims say of the ledger file.                                 *)

\* C8: load_expenses after save_expenses on the same path returns the list
\* saved, equal field by field and in the same order, with and without the
\* header and for the empty list.
C8_SaveLoadRoundTrip ==
    last.op = "save" => load_expenses(db) = last.expenses

\* two different expenses were saved under the header, over a file that held others
C8_Witness ==
    /\ last.op = "save"
    /\ last.include_header
    /\ Len(last.expenses) = 2
    /\ last.expenses[1] # last.expenses[2]
    /\ last.before # <<>>
    /\ last.before # last.expenses
    /\ Len(db.rows) = 3
    /\ load_expenses(db) = last.expenses

\* C9: append_expense, and handle_add through it, adds one record at the end
\* and leaves the records before it as they were: what load_expenses returns
\* afterwards is what it returned before followed by the new record, whether
\* the file was missing, empty, only a header or populated.
C9_AppendFrame ==
    last.op \in {"append", "add"} =>
        load_expenses(db) = Append(last.before, last.new)

\* an expense was appended to a file that held only the header
C9_Witness ==
    /\ last.op = "append"
    /\ last.kind = "header-only"
    /\ Len(db.rows) = 2
    /\ is_header(db.rows[1])
    /\ load_expenses(db) = <<last.new>>

-----------------------------------------------------------------------------
(* What the claims say of the handlers.                                    *)

RECURSIVE MaxOf(_)
MaxOf(ids) ==
    IF Len(ids) = 1 THEN ids[1]
    ELSE LET m == MaxOf(Tail(ids)) IN IF ids[1] > m THEN ids[1] ELSE m

\* C4: after any run of add, update and delete from an empty or a missing
\* ledger in which no add stamped a date earlier than the add before it, the
\* ledger file is sorted by date, never decreasing.
C4_SortedByDate ==
    ordered => SortedByDate(load_expenses(db))

\* two records of different dates, the first one updated, after a delete of id 1
C4_Witness ==
    /\ ordered
    /\ last.op = "add"
    /\ LET expenses == load_expenses(db)
       IN  /\ Len(expenses) = 2
           /\ expenses[1].id = 2
           /\ expenses[1].category = <<"f", "u", "n">>
           /\ DateLess(expenses[1].create_at, expenses[2].create_at)

\* C5: after any run of add, update and delete from an empty or a missing
\* ledger, the ids of the ledger file are positive and strictly increasing.
C5_IdsIncreasing ==
    LET expenses == load_expenses(db)
    IN  /\ \A i \in 1..Len(expenses) : expenses[i].id > 0
        /\ StrictlyIncreasingIds(expenses)

\* a ledger of two records that starts past 1: a record was deleted before an add
C5_Witness ==
    /\ last.op = "add"
    /\ Ids_of(last.before) = <<2>>
    /\ Ids_of(load_expenses(db)) = <<2, 3>>

\* C6: an id that add assigned once is never assigned by a later add.
C6_NeverReused ==
    last.op = "add" => last.fresh

\* C7: handle_add gives the new expense the largest id of the ledger file
\* plus one, and 1 when the ledger is empty or its file is missing.
C7_NewId ==
    last.op = "add" =>
        /\ last.new.id = IF last.before = <<>> THEN 1
                         ELSE MaxOf(Ids_of(last.before)) + 1
        /\ last.kind \in {"missing", "empty"} => last.new.id = 1
        /\ load_expenses(db)[Len(last.before) + 1].id = last.new.id

\* an add on a ledger shorter than its largest id
C7_Witness ==
    /\ last.op = "add"
    /\ Len(last.before) = 1
    /\ last.before[1].id = 2
    /\ last.new.id = 3

\* C10: handle_update leaves the length and the order of the ledger, every
\* other record, and the id and the date of the record updated as they were;
\* of its description, amount and category it leaves those not supplied as
\* they were, and when it carries the update out those supplied hold the
\* values supplied.
C10_UpdateFrame ==
    last.op = "update" =>
        LET before == last.before
            after == load_expenses(db)
        IN  /\ Len(after) = Len(before)
            /\ \A i \in 1..Len(before) :
                   /\ after[i].id = before[i].id
                   /\ after[i].create_at = before[i].create_at
                   /\ before[i].id # last.id => after[i] = before[i]
                   /\ last.description = None =>
                          after[i].description = before[i].description
                   /\ last.amount = None => after[i].amount = before[i].amount
                   /\ last.category = None =>
                          after[i].category = before[i].category
                   /\ (before[i].id = last.id /\ last.index # None) =>
                          /\ last.description # None =>
                                 after[i].description = last.description[1]
                          /\ last.amount # None =>
                                 after[i].amount = last.amount[1]
                          /\ last.category # None =>
                                 after[i].category = last.category[1]

\* the second of two records got a new amount and a new category, not a new description
C10_Witness ==
    /\ last.op = "update"
    /\ last.index = Some(1)
    /\ last.description = None
    /\ last.amount # None
    /\ last.category # None
    /\ Len(last.before) = 2
    /\ LET after == load_expenses(db)
       IN  /\ after[1] = last.before[1]
           /\ after[2].amount # last.before[2].amount
           /\ after[2].category # last.before[2].category
           /\ after[2].description = last.before[2].description

-----------------------------------------------------------------------------
(* What the claims say of a handler run on the files of a fixture.         *)

Range(s) == {s[i] : i \in 1..Len(s)}

C14_DefaultOnBadFile ==
    (/\ last.op = "budget"
     /\ \/ ~last.file.exists
        \/ last.file.bytes = <<>>
        \/ last.file \in InvalidBudgetFiles)
        => last.loaded = Return(default_budgets)

\* C15: for a table of 13 slots, None and then twelve budgets that are a
\* number >= 0 or inf, load_budgets after save_budgets returns the table
\* saved, and every inf of it is inf.
C15_BudgetRoundTrip ==
    (last.op = "budget" /\ last.saved # None) =>
        LET budgets == last.saved[1]
            loaded == load_budgets(budget)
        IN  (/\ Len(budgets) = 13
             /\ budgets[1] = null
             /\ \A i \in 2..13 :
                    \/ budgets[i] = Infinity
                    \/ budgets[i].kind = "num" /\ budgets[i].tenths >= 0)
                => /\ loaded = Return(budgets)
                   /\ \A i \in 2..13 :
                          budgets[i] = Infinity => loaded.value[i] = Infinity

\* a table with 2.5 for January and inf for December, saved over a file that
\* held no JSON
C15_Witness ==
    /\ last.op = "budget"
    /\ last.saved # None
    /\ last.file \in InvalidBudgetFiles
    /\ last.saved[1][2] = number(25)
    /\ last.saved[1][13] = Infinity
    /\ load_budgets(budget).value = last.saved[1]

-----------------------------------------------------------------------------
(* What the claims say of load_expenses on a file written by hand.         *)

\* the text is no number
NotNumeric(cell) == ~IsFloatStr(cell.text)

\* the claim's malformed row: the wrong number of fields, an id or an amount
\* that is no number, or a date that is none
MalformedRow(row) ==
    \/ Len(row) # Len(fields)
    \/ NotNumeric(row[1])
    \/ NotNumeric(row[3])
    \/ date_error(Quoted(row[5].text)) # None
    \/ ~row[5].quoted

\* the lines of the file that are malformed, the header not counted
MalformedLines(csv_file) ==
    {i \in 1..Len(csv_file.rows) :
        /\ ~(i = 1 /\ is_header(csv_file.rows[i]))
        /\ MalformedRow(csv_file.rows[i])}

\* C13: load_expenses on a file with a malformed line ends in SystemExit with
\* a message that names the line (the first malformed one), and returns no
\* list.
C13_MalformedAborts ==
    (call.fn = "load_expenses" /\ MalformedLines(db) # {}) =>
        /\ call.result.raised = Some("SystemExit")
        /\ call.result.value = None
        /\ "line" \in DOMAIN call.result
        /\ call.result.line \in MalformedLines(db)
        /\ \A i \in MalformedLines(db) : call.result.line <= i

-----------------------------------------------------------------------------
(* What the claims say of two invocations at once.                         *)

\* C17: when both invocations have loaded the ledger before either wrote it,
\* the one that writes last and writes with save_expenses (an update or a
\* delete of an id it found) leaves the file holding what it had in memory,
\* without the change of the other; one that writes last with append_expense
\* (an add) leaves what the other wrote with its own row after it.
C17_LaterSaveOverwrites ==
    (/\ Len(inv.log) = 4
     /\ inv.log[1][2] = "load"
     /\ inv.log[2][2] = "load") =>
        LET earlier == inv.run[inv.log[3][1]]
            later == inv.run[inv.log[4][1]]
            between == IF earlier.how = "none" THEN earlier.expenses
                       ELSE earlier.mine
        IN  /\ later.how = "save" => load_expenses(db) = later.mine
            /\ later.how = "append" =>
                   load_expenses(db) = Append(between, later.mine[Len(later.mine)])
            /\ later.how = "none" => load_expenses(db) = between

\* the add of the one that wrote first is missing from the ledger: the other
\* had loaded before it and saved an update after it
C17_Witness ==
    /\ Len(inv.log) = 4
    /\ inv.log[1][2] = "load"
    /\ inv.log[2][2] = "load"
    /\ inv.run[inv.log[3][1]].cmd.op = "add"
    /\ inv.run[inv.log[4][1]].cmd.op = "update"
    /\ inv.run[inv.log[4][1]].how = "save"
    /\ LET added == inv.run[inv.log[3][1]].mine
           after == load_expenses(db)
       IN  /\ Len(after) = Len(added) - 1
           /\ \A i \in 1..Len(after) : after[i].id # added[Len(added)].id

-----------------------------------------------------------------------------
\* the k-th smallest element of a set of numbers
Kth(S, k) == CHOOSE i \in S : Cardinality({j \in S : j < i}) = k - 1

\* C21: filter_by_category(expenses, c) returns exactly the expenses whose
\* category is c letter for letter ("Food" is not "food"), in the order they
\* stand in, whether the list is sorted or not; it returns the empty list when
\* none matches and when the list is empty.
C21_FilterByCategory ==
    call.fn = "filter_by_category" =>
        LET matches == {i \in 1..Len(seq) : seq[i].category = call.category}
        IN  /\ Len(call.result) = Cardinality(matches)
            /\ \A k \in 1..Len(call.result) :
                   call.result[k] = seq[Kth(matches, k)]
            /\ (matches = {} => call.result = <<>>)
            /\ (seq = <<>> => call.result = <<>>)

\* an unsorted list with "Food", "food" and "Food" again, filtered by "Food"
C21_Witness ==
    /\ call.fn = "filter_by_category"
    /\ call.category = <<"F", "o", "o", "d">>
    /\ Len(seq) = 3
    /\ seq[1].id > seq[3].id
    /\ seq[1].category = <<"F", "o", "o", "d">>
    /\ seq[2].category = <<"f", "o", "o", "d">>
    /\ seq[3].category = <<"F", "o", "o", "d">>
    /\ call.result = <<seq[1], seq[3]>>

-----------------------------------------------------------------------------
\* whether an expense passes the filters of one summary
Qualifies(exp, month, year, category, now) ==
    /\ month # None =>
           /\ exp.create_at.month = month[1]
           /\ exp.create_at.year = (IF year = None THEN now.year ELSE year[1])
    /\ (month = None /\ year # None) => exp.create_at.year = year[1]
    /\ category # None => exp.category = category[1]

\* C22: handle_summary reports the sum of the amounts of exactly the ledger
\* records that pass every filter given (month and year, then category), 0
\* when none does and the sum of the whole ledger when no filter is given,
\* and it changes neither the ledger nor the budget file.
C22_SummaryReports ==
    last.op = "summary" =>
        /\ last.out = Return(sum(SelectSeq(last.before,
                LAMBDA exp : Qualifies(exp, last.month, last.year,
                                       last.category, last.now))))
        /\ db = last.file
        /\ budget = last.table

-----------------------------------------------------------------------------
\* whether handle_budget was given month m
Listed(month, m) == \E k \in 1..Len(month) : month[k] = m

\* C23: handle_budget with an amount sets the budget of exactly the months
\* listed to that amount (inf too) and leaves slot 0 and every month not
\* listed as it was; without an amount it only displays budgets and writes
\* nothing to the budget file.
C23_BudgetFrame ==
    [][last'.op = "budget" =>
          IF last'.amount = None THEN budget' = budget
          ELSE /\ load_budgets(budget').raised = None
               /\ LET before == load_budgets(budget)
                      after == load_budgets(budget').value
                  IN  /\ \A m \in 1..12 :
                             Listed(last'.month, m) => after[m + 1] = last'.amount[1]
                      /\ before.raised = None =>
                             /\ Len(after) = Len(before.value)
                             /\ \A m \in 0..12 :
                                    ~Listed(last'.month, m)
                                        => after[m + 1] = before.value[m + 1]]_vars

-----------------------------------------------------------------------------
\* the file at the path handle_export was given
ExportTarget == IF last.csv = "DATABASE" THEN db ELSE exported

\* C24 as first stated: handle_export writes the ledger to the path chosen so
\* that load_expenses on that path equals load_expenses on the ledger file,
\* with and without the header, and leaves the ledger file itself unchanged.
C24_ExportLeavesLedger ==
    last.op = "export" =>
        /\ load_expenses(ExportTarget) = load_expenses(last.file)
        /\ db = last.file

\* C24: handle_export writes the ledger to the path chosen so that
\* load_expenses on that path equals load_expenses on the ledger file, with
\* and without the header, and leaves the ledger file itself unchanged when
\* the path chosen is not the ledger file's.
C24_Export ==
    last.op = "export" =>
        /\ load_expenses(ExportTarget) = load_expenses(last.file)
        /\ load_expenses(ExportTarget) = load_expenses(db)
        /\ last.csv # "DATABASE" => db = last.file

\* two expenses exported with the header over a file that held another one
C24_Witness ==
    /\ last.op = "export"
    /\ last.csv = "other"
    /\ last.include
    /\ Len(last.before) = 2
    /\ FileKind(last.file) = "populated"
    /\ Len(exported.rows) = 3
    /\ is_header(exported.rows[1])
    /\ load_expenses(exported) = last.before

-----------------------------------------------------------------------------
\* C25: handle_update prints the "at least one of the following arguments
\* are required" message, and leaves the ledger alone, exactly when none of
\* --description, --amount and --category was given; given any of them, an
\* amount of 0 too, it goes on to look up the id and to update the record.
C25_RejectsOnlyWithoutOptions ==
    last.op = "update" =>
        (last.out = <<"required">>
            <=> (/\ last.description = None
                 /\ last.amount = None
                 /\ last.category = None))

-----------------------------------------------------------------------------
\* C26: whatever budget file the commands started from (missing, empty or
\* corrupt) and whatever budget and ledger commands have run, load_budgets
\* returns a table of exactly 13 slots, slot 0 None and each of the slots
\* 1..12 a number that is not negative, or inf.
C26_TableShape ==
    LET loaded == load_budgets(budget)
    IN  /\ loaded.raised = None
        /\ Len(loaded.value) = 13
        /\ loaded.value[1] = null
        /\ \A m \in 1..12 :
               \/ loaded.value[m + 1] = Infinity
               \/ /\ loaded.value[m + 1].kind = "num"
                  /\ loaded.value[m + 1].tenths >= 0

-----------------------------------------------------------------------------
\* C27: when two handle_add invocations have run with their steps (load the
\* ledger, take the new id, append the row) interleaved in any order, the
\* ids of the ledger file are still pairwise distinct and strictly
\* increasing, and both new records are in it.
C27_ConcurrentAddsDistinct ==
    (\A p \in Procs : inv.run[p].pc = "done" /\ inv.run[p].cmd.op = "add") =>
        LET after == load_expenses(db)
        IN  /\ \A i, j \in 1..Len(after) : i < j => after[i].id < after[j].id
            /\ \A p \in Procs :
                   \E i \in 1..Len(after) :
                       after[i] = inv.run[p].mine[Len(inv.run[p].mine)]

\* C27, amended: when two handle_add invocations have run, both new rows
\* are in the ledger file after the rows that were there; when the second
\* loaded after the first had appended, the ids of the file are pairwise
\* distinct and strictly increasing; when both loaded before either
\* appended, the two new rows hold the same id.
C27_ConcurrentAdds ==
    (\A p \in Procs : inv.run[p].pc = "done" /\ inv.run[p].cmd.op = "add") =>
        LET after == load_expenses(db)
            n == Len(after)
            first == inv.run[inv.log[1][1]]
            news == {inv.run[p].mine[Len(inv.run[p].mine)] : p \in Procs}
        IN  /\ n = Len(first.expenses) + 2
            /\ SubSeq(after, 1, n - 2) = first.expenses
            /\ {after[n - 1], after[n]} = news
            /\ inv.log[2][2] = "write" =>
                   \A i, j \in 1..n : i < j => after[i].id < after[j].id
            /\ inv.log[2][2] = "load" => after[n - 1].id = after[n].id

\* both adds loaded a ledger of one record before either appended: the file
\* ends in two rows of the same id
C27_Witness ==
    /\ \A p \in Procs : inv.run[p].pc = "done" /\ inv.run[p].cmd.op = "add"
    /\ inv.log[1][2] = "load"
    /\ inv.log[2][2] = "load"
    /\ Len(inv.run[1].expenses) = 1
    /\ LET after == load_expenses(db)
       IN  /\ Len(after) = 3
           /\ after[2].id = after[3].id
           /\ after[1].id < after[2].id

-----------------------------------------------------------------------------
-----------------------------------------------------------------------------
\* C29: after any rounds in which ranking is called and, whenever it returns
\* a rank, update_scores is called with it, the update has succeeded and the
\* list is sorted by (attempts, elapsed), never decreasing, and holds at most
\* max_count entries; so too in the round where the list is full and the
\* score beats its last entry.
C29_UpdateSucceeds ==
    top.round.step \in {"ranked", "raised"} =>
        /\ top.round.ranking # None => top.round.raised = None
        /\ \A k \in 1..(Len(top.scores) - 1) :
               ~ScoreLess(top.scores[k + 1], top.scores[k])
        /\ Len(top.scores) <= top.max_count

-----------------------------------------------------------------------------
\* what guess said of the wrong answers, in order
Reports == SelectSeq(game.out, LAMBDA line : line \in {"greater", "less"})

\* C30: guess(secret, chances) reads at most `chances` integer answers and
\* then stops; it returns (k, elapsed) exactly when the k-th answer is the
\* first that equals the secret and k <= chances, and reads no answer after
\* it; it returns None after the "run out of chances" message exactly when
\* none of the first `chances` answers equals the secret; and each wrong
\* answer is reported "greater" when it is below the secret and "less" when
\* it is above.
C30_Guess ==
    game.pc \in {"for", "returned"} =>
        LET n == Len(game.answers)
            hits == {k \in 1..n : game.answers[k] = game.secret}
            wrong == n - Cardinality(hits)
        IN  /\ n <= game.chances
            /\ game.pc = "for" <=> (hits = {} /\ n < game.chances)
            /\ (game.pc = "returned" /\ game.result # None) <=> hits = {n}
            /\ hits = {n} => game.result[1].attempts = n
            /\ (game.pc = "returned" /\ game.result = None)
                   <=> (hits = {} /\ n = game.chances)
            /\ (game.out[Len(game.out)] = "run out of chances")
                   <=> (hits = {} /\ n = game.chances)
            /\ Len(Reports) = wrong
            /\ \A k \in 1..wrong :
                   /\ game.answers[k] < game.secret => Reports[k] = "greater"
                   /\ game.answers[k] > game.secret => Reports[k] = "less"

\* three chances, an answer above the secret, one below it, then the secret
C30_Witness ==
    /\ game.pc = "returned"
    /\ game.chances = 3
    /\ Len(game.answers) = 3
    /\ game.answers[1] > game.secret
    /\ game.answers[2] < game.secret
    /\ game.answers[3] = game.secret
    /\ game.result # None
    /\ game.result[1].attempts = 3
    /\ Reports = <<"less", "greater">>

=============================================================================
